---- MODULE Spec2Model ----
(***************************************************************************)
(* A model of the AWS IAM data fetchers:                                   *)
(*   fetch_iam_data.py                 directory-only, thread pool         *)
(*   fetch_iam_data_with_dependent.py  thread pool, then a scraping pass   *)
(*   fetch_iam_full.py                 sequential full HTML scraping       *)
(*                                                                         *)
(* The specifications share the module, each over its own variables,       *)
(* with the variables of the others held at their idle values:             *)
(*   Spec, FairSpec  main() of the three scripts: directory fetch, the     *)
(*                   pool or the sequential loop, sort, output             *)
(*   ParseSpec       the row loop over the tables of one page, and the     *)
(*                   action loop over one JSON document                    *)
(*   DepSpec         the extraction of dependent actions from one cell     *)
(*   ResolveSpec     the search for the documentation page of a service    *)
(*   AccessSpec      the access level given to each operation              *)
(*   PoolSpec        the thread pool with more services than threads       *)
(*                                                                         *)
(* Service ids are strings in the code and are compared by sort(); in      *)
(* main they are modelled as naturals with the usual order.  Texts that    *)
(* the code inspects character by character are tuples of one-character    *)
(* strings.  The lastUpdated field of the output (a wall-clock timestamp)  *)
(* is left out.                                                            *)
(***************************************************************************)
EXTENDS Integers, Sequences, FiniteSets, Bags, TLC

\* ------------------------------------------------------------------ bounds
\* The largest service directory the orchestrator is run on.
MaxServices == 3

\* The largest directory of the runs checked for termination (FairSpec).
MaxFairServices == 2

\* ThreadPoolExecutor(max_workers=10)
max_workers == 10

\* ------------------------------------------------------------ python values
\* Python's None.
None == [none |-> TRUE]

\* Truth value of a function result that is a dict or None ("if result:").
\* The dicts built by the fetchers always hold keys, so they are truthy.
Truthy(result) == result # None

Range(s) == {s[k] : k \in DOMAIN s}

\* ----------------------------------------------------------------- inputs
ServiceIds == 1..MaxServices

\* The directory: a list of entries with unique service ids, in any order.
Directories ==
    {d \in UNION {[1..n -> ServiceIds] : n \in 0..MaxServices} :
        \A a, b \in DOMAIN d : a # b => d[a] # d[b]}

\* The directories of at most MaxFairServices entries.
FairDirectories == {d \in Directories : Len(d) <= MaxFairServices}

\* What can happen to the structured JSON fetch of one service
\* (fetch_service_data): the request raises or times out or the status is
\* an HTTP error (lines 34-35), or decoding / processing raises (36-85).
DataKinds == {"ok", "fetch_error", "parse_exception"}

\* What can happen to one service in scrape_service_data: no candidate URL
\* answers, the GET raises, the GET answers with an HTML error page (no
\* status check is made), parsing raises, the page holds no operations
\* table, or the page parses into at least one operation.
FullKinds == {"ok", "ok_empty", "not_found", "fetch_error", "http_error_page",
              "parse_exception"}

\* What can happen to scrape_dependent_actions for one service.
DepKinds == {"found", "nothing", "error"}

Variants == {"data", "dependent", "full"}

VARIABLES
    variant,     \* which script runs
    pc,          \* position of main()
    services,    \* the directory as fetched (list of service ids)
    futures,     \* per service: state of its future in the pool
    results,     \* per service: what its worker returned
    i,           \* loop index of main's for loops
    all_data,    \* the success list
    failed,      \* the failure list
    output,      \* the document written to OUTPUT_FILE, None before
    attempts,    \* history: how often each service was handed to a worker
    outcome,     \* history: what happened to each service's fetch
    unsorted,    \* history: a record was appended behind one of a larger id
    dir_fetch    \* history: "pending", "ok" or "failed" directory fetch

mainVars == <<variant, pc, services, futures, results, i, all_data, failed,
              output, attempts, outcome, unsorted, dir_fetch>>

\* The row loop of the page parser (ParseSpec).
VARIABLES
    source,          \* "html": scrape_service_data, "json": fetch_service_data
    actions,         \* the list of action_data dicts built so far
    current_action,  \* 0 for None, else the index in actions of the dict
                     \* that current_action refers to
    table_kind,      \* which branch the table being read took, "" outside
    headers,         \* the texts of the th cells of the table being read
    resources,       \* the records of the resource types tables
    condition_keys,  \* the records of the condition keys tables
    tables,          \* number of tables begun
    rows,            \* number of rows and JSON actions processed
    last_row,        \* history: the row processed last
    parse_done       \* the record has been returned

parseVars == <<source, actions, current_action, table_kind, headers,
               resources, condition_keys, tables, rows, last_row, parse_done>>

\* The dependency extraction over one cell (DepSpec).
VARIABLES
    dep_source,        \* "full": scrape_service_data, "dependent":
                       \* scrape_dependent_actions
    cell,              \* the trailing cell: its pieces of text, in order
    dependentActions,  \* the list extracted from the cell
    dep_done           \* the extraction has run

depVars == <<dep_source, cell, dependentActions, dep_done>>

\* The search for the documentation page of one service (ResolveSpec).
VARIABLES
    res_source,    \* "full": get_service_doc_url, "dependent": the loop
                   \* over urls_to_try in scrape_dependent_actions
    res_service,   \* the service identifier the search is called with
    res_pc,        \* "call", "special", "patterns" or "done"
    next_url,      \* index of the next pattern / entry of urls_to_try
    probes,        \* history: the requests made, with their answers
    resolved       \* the URL found, NotFound, or None while searching

resolveVars ==
    <<res_source, res_service, res_pc, next_url, probes, resolved>>

\* The access level of the operations of one service (AccessSpec).
VARIABLES
    acc_source,    \* "json": get_access_level, "html": the primary rows of
                   \* scrape_service_data
    acc_actions,   \* the action_data dicts built so far; input is history:
                   \* what the access level was derived from
    acc_done       \* the loop over the operations is over

accessVars == <<acc_source, acc_actions, acc_done>>

\* The thread pool of main() with more services than pool threads
\* (PoolSpec).  The services are numbered in the order of the directory.
VARIABLES
    pool_services,  \* len(services)
    pool_raising,   \* the services whose fetch raises (the input)
    pool_pc,        \* "submit", "collect" or "done"
    pool_i,         \* number of futures submitted, then of futures yielded
    pool_futures,   \* per service: state of its future
    pool_results,   \* per service: what fetch_service_data returned
    pool_all_data,  \* the list all_data, as the bag of its elements
    pool_failed,    \* the list failed, as the bag of its elements
    pool_submits    \* history: per service, the number of submit() calls

poolVars == <<pool_services, pool_raising, pool_pc, pool_i, pool_futures,
              pool_results, pool_all_data, pool_failed, pool_submits>>

vars == <<mainVars, parseVars, depVars, resolveVars, accessVars, poolVars>>

\* The variables of the components other than main, the parser, the
\* extraction.
notMain == <<parseVars, depVars, resolveVars, accessVars, poolVars>>
notParse == <<mainVars, depVars, resolveVars, accessVars, poolVars>>
notDep == <<mainVars, parseVars, resolveVars, accessVars, poolVars>>
notResolve == <<mainVars, parseVars, depVars, accessVars, poolVars>>
notAccess == <<mainVars, parseVars, depVars, resolveVars, poolVars>>
notPool == <<mainVars, parseVars, depVars, resolveVars, accessVars>>

PoolIdle ==
    /\ pool_services = 0
    /\ pool_raising = {}
    /\ pool_pc = "idle"
    /\ pool_i = 0
    /\ pool_futures = <<>>
    /\ pool_results = <<>>
    /\ pool_all_data = <<>>
    /\ pool_failed = <<>>
    /\ pool_submits = <<>>

AccessIdle ==
    /\ acc_source = ""
    /\ acc_actions = <<>>
    /\ acc_done = FALSE

ResolveIdle ==
    /\ res_source = ""
    /\ res_service = <<>>
    /\ res_pc = "idle"
    /\ next_url = 0
    /\ probes = <<>>
    /\ resolved = None

DepIdle ==
    /\ dep_source = ""
    /\ cell = <<>>
    /\ dependentActions = <<>>
    /\ dep_done = FALSE

\* The values of the parser's variables while another component runs.
ParseIdle ==
    /\ source = ""
    /\ actions = <<>>
    /\ current_action = 0
    /\ table_kind = ""
    /\ headers = <<>>
    /\ resources = <<>>
    /\ condition_keys = <<>>
    /\ tables = 0
    /\ rows = 0
    /\ last_row = None
    /\ parse_done = FALSE

MainIdle ==
    /\ variant = ""
    /\ pc = "idle"
    /\ services = <<>>
    /\ futures = <<>>
    /\ results = <<>>
    /\ i = 0
    /\ all_data = <<>>
    /\ failed = <<>>
    /\ output = None
    /\ attempts = <<>>
    /\ outcome = <<>>
    /\ unsorted = FALSE
    /\ dir_fetch = "pending"

\* ------------------------------------------------------- worker functions
\* fetch_service_data: the processed record, or None when anything raised.
fetch_service_data(service_name, kind) ==
    IF kind = "ok"
    THEN [service |-> service_name, actions |-> 1, deps |-> FALSE]
    ELSE None

\* Mutant: a request that raised yields an empty record instead of None.
scrape_service_data_partial(service_name, kind) ==
    CASE kind = "ok" ->
             [service |-> service_name, actions |-> 1, deps |-> FALSE]
      [] kind \in {"ok_empty", "http_error_page", "fetch_error"} ->
             [service |-> service_name, actions |-> 0, deps |-> FALSE]
      [] OTHER -> None

\* scrape_service_data: None when the resolver finds no URL or when the
\* request or the parsing raises; otherwise the record, whose action list
\* is empty when the page holds no operations table.
scrape_service_data(service_name, kind) ==
    CASE kind = "ok" ->
             [service |-> service_name, actions |-> 1, deps |-> FALSE]
      [] kind \in {"ok_empty", "http_error_page"} ->
             [service |-> service_name, actions |-> 0, deps |-> FALSE]
      [] OTHER -> None

\* scrape_dependent_actions: the map of dependent actions, {} when the page
\* is not found or anything raised.  TRUE stands for a non-empty map.
scrape_dependent_actions(kind) == kind = "found"

\* ---------------------------------------------------------------- sorting
\* list.sort(key=lambda x: x["service"]): a stable sort by service id,
\* computed by insertion.
RECURSIVE InsertByService(_, _)
InsertByService(sorted, x) ==
    IF sorted = <<>> THEN <<x>>
    ELSE IF sorted[Len(sorted)].service <= x.service
         THEN Append(sorted, x)
         ELSE Append(InsertByService(SubSeq(sorted, 1, Len(sorted) - 1), x),
                     sorted[Len(sorted)])

\* Mutant: the list is left in completion order.
SortByService_none(s) == s

RECURSIVE SortByService(_)
SortByService(s) ==
    IF s = <<>> THEN <<>>
    ELSE InsertByService(SortByService(SubSeq(s, 1, Len(s) - 1)), s[Len(s)])

\* Mutant: the counter counts every service of the directory.
Dataset_counts_all(data, failures) ==
    [services |-> data, totalServices |-> Len(data) + Len(failures),
     failedServices |-> failures]

\* The document handed to json.dump.
Dataset(data, failures) ==
    [services |-> data, totalServices |-> Len(data),
     failedServices |-> failures]

\* ------------------------------------------------------------------- main
Init ==
    /\ variant \in Variants
    /\ pc = "start"
    /\ services = <<>>
    /\ futures = [s \in ServiceIds |-> "unsubmitted"]
    /\ results = [s \in ServiceIds |-> None]
    /\ i = 0
    /\ all_data = <<>>
    /\ failed = <<>>
    /\ output = None
    /\ attempts = [s \in ServiceIds |-> 0]
    /\ outcome = [s \in ServiceIds |-> "none"]
    /\ unsorted = FALSE
    /\ dir_fetch = "pending"
    /\ ParseIdle
    /\ DepIdle
    /\ ResolveIdle
    /\ AccessIdle
    /\ PoolIdle

\* Where main continues after the per-service loop over the directory
\* (the loop is skipped at once when there is nothing to iterate over).
AfterFetchLoop(data) ==
    IF variant = "dependent" /\ data # <<>> THEN "scrape" ELSE "save"

\* The directory fetch answers with a service list out of dirs.
FetchDirectory(dirs) ==
    /\ pc = "start"
    /\ \E d \in dirs :
         /\ services' = d
         /\ pc' = IF d = <<>> THEN "save"
                  ELSE IF variant = "full" THEN "loop" ELSE "submit"
    /\ dir_fetch' = "ok"
    /\ UNCHANGED <<notMain, variant, futures, results, i, all_data, failed,
                   output, attempts, outcome, unsorted>>

FetchServiceList == FetchDirectory(Directories)

FairFetchServiceList == FetchDirectory(FairDirectories)

\* Mutant: a failed directory fetch is treated as an empty directory.
FetchServiceListFails_continues ==
    /\ pc = "start"
    /\ pc' = "save"
    /\ dir_fetch' = "failed"
    /\ UNCHANGED <<notMain, variant, services, futures, results, i, all_data,
                   failed, output, attempts, outcome, unsorted>>

\* The directory fetch raises: fetch_iam_full.py catches it and returns,
\* the other two scripts let it propagate out of main().
FetchServiceListFails ==
    /\ pc = "start"
    /\ pc' = "aborted"
    /\ dir_fetch' = "failed"
    /\ UNCHANGED <<notMain, variant, services, futures, results, i, all_data,
                   failed, output, attempts, outcome, unsorted>>

\* executor.submit(fetch_service_data, service) for the next service; after
\* the last one main enters as_completed().
Submit ==
    /\ pc = "submit"
    /\ i < Len(services)
    /\ futures' = [futures EXCEPT ![services[i + 1]] = "queued"]
    /\ IF i + 1 = Len(services)
       THEN pc' = "collect" /\ i' = 0
       ELSE pc' = pc /\ i' = i + 1
    /\ UNCHANGED <<notMain, variant, services, results, all_data, failed,
                   output, attempts, outcome, unsorted, dir_fetch>>

Running == {s \in ServiceIds : futures[s] = "running"}

\* The pool's work queue is first in, first out.
FirstQueued(k) ==
    /\ k \in DOMAIN services
    /\ futures[services[k]] = "queued"
    /\ \A j \in 1..(k - 1) : futures[services[j]] # "queued"

\* An idle pool thread takes the next work item and calls the worker.
WorkerStart ==
    /\ Cardinality(Running) < max_workers
    /\ \E k \in DOMAIN services :
         /\ FirstQueued(k)
         /\ futures' = [futures EXCEPT ![services[k]] = "running"]
         /\ attempts' = [attempts EXCEPT ![services[k]] = @ + 1]
    /\ UNCHANGED <<notMain, variant, pc, services, results, i, all_data,
                   failed, output, outcome, unsorted, dir_fetch>>

\* A worker returns from fetch_service_data.
WorkerFinish ==
    \E s \in Running, kind \in DataKinds :
        /\ futures' = [futures EXCEPT ![s] = "finished"]
        /\ results' = [results EXCEPT ![s] = fetch_service_data(s, kind)]
        /\ outcome' = [outcome EXCEPT ![s] = kind]
        /\ UNCHANGED <<notMain, variant, pc, services, i, all_data, failed,
                       output, attempts, unsorted, dir_fetch>>

\* The history variable: a record is appended behind one of a larger id.
OutOfOrder(data, s) == unsorted \/ \E k \in DOMAIN data : data[k].service > s

\* Mutant: a worker that returned None is not recorded anywhere.
Collect_drops_failure ==
    /\ pc = "collect"
    /\ \E s \in ServiceIds :
         /\ futures[s] = "finished"
         /\ futures' = [futures EXCEPT ![s] = "collected"]
         /\ IF Truthy(results[s])
            THEN /\ all_data' = Append(all_data, results[s])
                 /\ unsorted' = OutOfOrder(all_data, s)
            ELSE UNCHANGED <<all_data, unsorted>>
    /\ IF i + 1 = Len(services)
       THEN pc' = AfterFetchLoop(all_data') /\ i' = 0
       ELSE pc' = pc /\ i' = i + 1
    /\ UNCHANGED <<notMain, variant, services, results, output, attempts,
                   outcome, dir_fetch, failed>>

\* Mutant: the worker's exception reaches future.result() and ends main.
Collect_raises ==
    /\ pc = "collect"
    /\ \E s \in ServiceIds :
         /\ futures[s] = "finished"
         /\ futures' = [futures EXCEPT ![s] = "collected"]
         /\ IF Truthy(results[s])
            THEN /\ all_data' = Append(all_data, results[s])
                 /\ unsorted' = OutOfOrder(all_data, s)
                 /\ IF i + 1 = Len(services)
                    THEN pc' = AfterFetchLoop(all_data') /\ i' = 0
                    ELSE pc' = pc /\ i' = i + 1
            ELSE /\ UNCHANGED <<all_data, unsorted, i>>
                 /\ pc' = "aborted"
    /\ UNCHANGED <<notMain, variant, services, results, output, attempts,
                   outcome, dir_fetch, failed>>

\* One iteration of "for i, future in enumerate(as_completed(futures))":
\* as_completed yields any future that has finished and was not yielded;
\* after the last one the with block is left.
Collect ==
    /\ pc = "collect"
    /\ \E s \in ServiceIds :
         /\ futures[s] = "finished"
         /\ futures' = [futures EXCEPT ![s] = "collected"]
         /\ IF Truthy(results[s])
            THEN /\ all_data' = Append(all_data, results[s])
                 /\ unsorted' = OutOfOrder(all_data, s)
                 /\ UNCHANGED failed
            ELSE /\ failed' = Append(failed, s)
                 /\ UNCHANGED <<all_data, unsorted>>
    /\ IF i + 1 = Len(services)
       THEN pc' = AfterFetchLoop(all_data') /\ i' = 0
       ELSE pc' = pc /\ i' = i + 1
    /\ UNCHANGED <<notMain, variant, services, results, output, attempts,
                   outcome, dir_fetch>>

\* fetch_iam_data_with_dependent.py: one iteration of the scraping loop
\* over all_data; an exception is caught in scrape_dependent_actions and
\* again in main.
ScrapeDependent ==
    /\ pc = "scrape"
    /\ i < Len(all_data)
    /\ \E kind \in DepKinds :
         all_data' = [all_data EXCEPT ![i + 1].deps =
                         scrape_dependent_actions(kind)]
    /\ IF i + 1 = Len(all_data)
       THEN pc' = "save" /\ i' = 0
       ELSE pc' = pc /\ i' = i + 1
    /\ UNCHANGED <<notMain, variant, services, futures, results, failed,
                   output, attempts, outcome, unsorted, dir_fetch>>

\* Mutant: the loop has no "elif result" branch, a record without actions
\* counts as a failure.
ScrapeService_empty_fails ==
    /\ pc = "loop"
    /\ i < Len(services)
    /\ \E kind \in FullKinds :
         LET service_name == services[i + 1]
             result == scrape_service_data(service_name, kind)
         IN /\ IF Truthy(result) /\ result.actions > 0
               THEN /\ all_data' = Append(all_data, result)
                    /\ unsorted' = OutOfOrder(all_data, service_name)
                    /\ UNCHANGED failed
               ELSE /\ failed' = Append(failed, service_name)
                    /\ UNCHANGED <<all_data, unsorted>>
            /\ attempts' = [attempts EXCEPT ![service_name] = @ + 1]
            /\ outcome' = [outcome EXCEPT ![service_name] = kind]
    /\ IF i + 1 = Len(services)
       THEN pc' = "save" /\ i' = 0
       ELSE pc' = pc /\ i' = i + 1
    /\ UNCHANGED <<notMain, variant, services, futures, results, output,
                   dir_fetch>>

\* fetch_iam_full.py: one iteration of "for i, service_info in
\* enumerate(services)".
ScrapeService ==
    /\ pc = "loop"
    /\ i < Len(services)
    /\ \E kind \in FullKinds :
         LET service_name == services[i + 1]
             result == scrape_service_data(service_name, kind)
         IN /\ IF Truthy(result) /\ result.actions > 0
               THEN /\ all_data' = Append(all_data, result)
                    /\ unsorted' = OutOfOrder(all_data, service_name)
                    /\ UNCHANGED failed
               ELSE IF Truthy(result)
               THEN /\ all_data' = Append(all_data, result)
                    /\ unsorted' = OutOfOrder(all_data, service_name)
                    /\ UNCHANGED failed
               ELSE /\ failed' = Append(failed, service_name)
                    /\ UNCHANGED <<all_data, unsorted>>
            /\ attempts' = [attempts EXCEPT ![service_name] = @ + 1]
            /\ outcome' = [outcome EXCEPT ![service_name] = kind]
    /\ IF i + 1 = Len(services)
       THEN pc' = "save" /\ i' = 0
       ELSE pc' = pc /\ i' = i + 1
    /\ UNCHANGED <<notMain, variant, services, futures, results, output,
                   dir_fetch>>

\* all_data.sort(...), then json.dump of the document.
Save ==
    /\ pc = "save"
    /\ all_data' = SortByService(all_data)
    /\ output' = Dataset(all_data', failed)
    /\ pc' = "done"
    /\ UNCHANGED <<notMain, variant, services, futures, results, i, failed,
                   attempts, outcome, unsorted, dir_fetch>>

Next ==
    \/ FetchServiceList
    \/ FetchServiceListFails
    \/ Submit
    \/ WorkerStart
    \/ WorkerFinish
    \/ Collect
    \/ ScrapeDependent
    \/ ScrapeService
    \/ Save

Spec == Init /\ [][Next]_vars

\* Every step of main and of the pool's threads is a computation or a
\* network call with a timeout (timeout=30), and the pool's threads are
\* scheduled by the operating system: a step that can be taken is taken.
\* FairSpec runs main on the directories of FairDirectories.
FairNext ==
    \/ FairFetchServiceList
    \/ FetchServiceListFails
    \/ Submit
    \/ WorkerStart
    \/ WorkerFinish
    \/ Collect
    \/ ScrapeDependent
    \/ ScrapeService
    \/ Save

FairSpec == Init /\ [][FairNext]_vars /\ WF_vars(FairNext)

\* ------------------------------------------------- orchestrator properties
Count(seq, x) == Cardinality({k \in DOMAIN seq : seq[k] = x})

\* The service ids of a list of records, in list order.
Ids(data) == [k \in DOMAIN data |-> data[k].service]

\* C1: in the document written at the end of main(), totalServices equals
\* the length of services, and no service id is both in services and in
\* failedServices.
C1_TotalAndDisjoint ==
    output # None =>
        /\ output.totalServices = Len(output.services)
        /\ Range(Ids(output.services)) \cap Range(output.failedServices) = {}

\* A document with both a success and a failure has been written.
C1_Witness ==
    /\ output # None
    /\ Len(output.services) >= 1
    /\ Len(output.failedServices) >= 1

\* C2: every service of the directory is handed to a worker at most once
\* at any time and exactly once by the end of the run, and then occurs
\* exactly once in services and failedServices taken together; an id that
\* is not in the directory occurs in neither.
C2_ExactlyOnce ==
    /\ \A s \in ServiceIds : attempts[s] <= 1
    /\ \A s \in ServiceIds :
          Count(Ids(all_data), s) + Count(failed, s) <= 1
    /\ output # None =>
          \A s \in ServiceIds :
              LET n == Count(Ids(output.services), s)
                       + Count(output.failedServices, s)
              IN IF s \in Range(services)
                 THEN attempts[s] = 1 /\ n = 1
                 ELSE attempts[s] = 0 /\ n = 0

\* A thread-pool run over a full directory, completed out of directory
\* order, with successes and failures, has written its document.
C2_Witness ==
    /\ output # None
    /\ variant = "data"
    /\ Len(services) = MaxServices
    /\ unsorted
    /\ Len(output.services) >= 1
    /\ Len(output.failedServices) >= 1

\* The outcomes after which a worker returns no record.
NoRecord(kind) == kind \in {"not_found", "fetch_error", "parse_exception"}

\* The record of service s in the written document is the record its
\* worker built (the later scraping pass only fills in dependent actions).
FullyParsed(s) ==
    \E k \in DOMAIN output.services :
        /\ output.services[k].service = s
        /\ output.services[k].actions =
              (IF variant = "full" THEN scrape_service_data(s, outcome[s])
               ELSE fetch_service_data(s, outcome[s])).actions

\* C3 as stated: failedServices holds exactly the services whose page
\* fetch errored, and every other service is in services.
C3_OnlyFetchErrorsFail ==
    (variant = "full" /\ output # None) =>
        /\ Range(output.failedServices) =
              {s \in Range(services) : outcome[s] = "fetch_error"}
        /\ \A s \in Range(services) :
              outcome[s] # "fetch_error" => s \in Range(Ids(output.services))

\* C3 amended: the run writes its document although fetches fail;
\* failedServices holds exactly the services for which no record was
\* produced (no URL resolved, the request raised, or parsing raised), and
\* every other service is in services with the record its worker built.
C3_FailuresRecorded ==
    output # None =>
        /\ Range(output.failedServices) =
              {s \in Range(services) : NoRecord(outcome[s])}
        /\ Len(output.failedServices) =
              Cardinality({s \in Range(services) : NoRecord(outcome[s])})
        /\ \A s \in Range(services) : ~NoRecord(outcome[s]) => FullyParsed(s)

\* Three services, the page fetch of exactly one of them raised, the other
\* two parsed: two records and one failure are written.
C3_Witness ==
    /\ variant = "full"
    /\ output # None
    /\ Len(services) = 3
    /\ Cardinality({s \in Range(services) : outcome[s] = "fetch_error"}) = 1
    /\ Cardinality({s \in Range(services) : outcome[s] = "ok"}) = 2
    /\ Len(output.services) = 2
    /\ Len(output.failedServices) = 1

\* The outcomes after which the page was resolved and fetched and the
\* record built from it holds no operation.
EmptyRecord(kind) == kind \in {"ok_empty", "http_error_page"}

\* C12: in fetch_iam_full.py a service whose page was resolved and fetched
\* and gave no operation is appended to the success list and never to the
\* failure list, and the failure list gets only services for which no
\* record was produced; the written document says the same.
C12_EmptyIsSuccess ==
    variant = "full" =>
        /\ \A s \in Range(services) :
              EmptyRecord(outcome[s]) =>
                  /\ Count(Ids(all_data), s) = 1
                  /\ s \notin Range(failed)
        /\ \A s \in Range(failed) : NoRecord(outcome[s])
        /\ output # None =>
              /\ \A s \in Range(services) :
                    EmptyRecord(outcome[s]) =>
                        /\ \E k \in DOMAIN output.services :
                              /\ output.services[k].service = s
                              /\ output.services[k].actions = 0
                        /\ s \notin Range(output.failedServices)
              /\ \A s \in Range(output.failedServices) : NoRecord(outcome[s])

\* The document of a run in which one page gave no operation and the
\* request for another raised: the first is in services, the second in
\* failedServices.
C12_Witness ==
    /\ variant = "full"
    /\ output # None
    /\ \E s, u \in Range(services) :
         /\ outcome[s] = "ok_empty"
         /\ outcome[u] = "fetch_error"
         /\ s \in Range(Ids(output.services))
         /\ output.failedServices = <<u>>

\* C4: the services array of the written document is in ascending order
\* of service id and holds exactly the services that produced a record,
\* whatever the order of completion was: the sequence is determined by
\* the per-service outcomes alone.
C4_SortedById ==
    output # None =>
        LET ids == Ids(output.services)
        IN /\ \A a, b \in DOMAIN ids : a < b => ids[a] < ids[b]
           /\ Range(ids) = {s \in Range(services) : ~NoRecord(outcome[s])}

\* A thread-pool run whose successes completed out of ascending order.
C4_Witness ==
    /\ output # None
    /\ variant \in {"data", "dependent"}
    /\ Len(output.services) >= 2
    /\ unsorted

\* C5: once the directory fetch has succeeded the run reaches the step
\* that writes the output document, whatever happens to the services.
C5_OutputWritten == (dir_fetch = "ok") ~> (pc = "done" /\ output # None)

\* A run in which a request failed and a parse raised has written its
\* document.
C5_Witness ==
    /\ pc = "done"
    /\ output # None
    /\ \E s, u \in Range(services) :
          outcome[s] = "fetch_error" /\ outcome[u] = "parse_exception"

\* C6: after a failed directory fetch no document is written, no service
\* is handed to a worker, and the run takes no further step.
C6_DirectoryFailureAborts ==
    dir_fetch = "failed" =>
        /\ output = None
        /\ \A s \in ServiceIds :
              attempts[s] = 0 /\ futures[s] = "unsubmitted"
        /\ all_data = <<>> /\ failed = <<>>
        /\ ~ENABLED Next

\* The directory fetch has failed.
C6_Witness == dir_fetch = "failed" /\ pc = "aborted"


\* =========================================================== page parser
\* The row loop of scrape_service_data (fetch_iam_full.py) over the tables
\* of one page, and the action loop of fetch_service_data over one JSON
\* document.  Of an action_data dict the model keeps the resource list and
\* supportsResourceLevelPermissions; texts are tuples of characters.

\* The largest number of rows (or JSON actions) of one page.
MaxRows == 3

\* The largest number of tables of one page.
MaxTables == 2

\* str.strip(): leading and trailing blanks removed.
RECURSIVE LStrip(_)
LStrip(text) ==
    IF text # <<>> /\ Head(text) = " " THEN LStrip(Tail(text)) ELSE text

RECURSIVE RStrip(_)
RStrip(text) ==
    IF text # <<>> /\ text[Len(text)] = " "
    THEN RStrip(SubSeq(text, 1, Len(text) - 1))
    ELSE text

Strip(text) == RStrip(LStrip(text))

LowerLetters ==
    <<"a", "b", "c", "d", "e", "f", "g", "h", "i", "j", "k", "l", "m", "n",
    "o", "p", "q", "r", "s", "t", "u", "v", "w", "x", "y", "z">>

UpperLetters ==
    <<"A", "B", "C", "D", "E", "F", "G", "H", "I", "J", "K", "L", "M", "N",
    "O", "P", "Q", "R", "S", "T", "U", "V", "W", "X", "Y", "Z">>

\* str.lower() of one character.
ToLower(c) ==
    IF \E k \in DOMAIN UpperLetters : UpperLetters[k] = c
    THEN LowerLetters[CHOOSE k \in DOMAIN UpperLetters : UpperLetters[k] = c]
    ELSE c

\* str.lower()
Lower(text) == [k \in DOMAIN text |-> ToLower(text[k])]

\* word in text
Contains(word, text) ==
    \E p \in 1..(Len(text) - Len(word) + 1) :
        SubSeq(text, p, p + Len(word) - 1) = word

\* "*" in resource_name
HasStar(resource_name) == \E k \in DOMAIN resource_name : resource_name[k] = "*"

\* The anchor texts of a resource cell, as get_text() returns them.
LinkTexts == {<<"a">>, <<" ", "a">>, <<"b", "*">>, <<" ">>}

\* The lists of anchors a resource cell is read with.
LinkLists ==
    {<<>>, <<<<"a">>>>, <<<<"b", "*">>>>, <<<<" ">>>>,
     <<<<"a">>, <<"b", "*">>>>, <<<<"a">>, <<" ", "a">>>>,
     <<<<"b", "*">>, <<"a">>, <<"b", "*">>>>}

\* The cell counts a row is read with: 6 and 7 cells make a primary row,
\* 3 cells a continuation row, the others are skipped.
CellCounts == {2, 3, 5, 6, 7}

\* The header texts the if / elif chain compares with.
TextActions ==
    <<"A", "c", "t", "i", "o", "n", "s">>
TextAccessLevel ==
    <<"A", "c", "c", "e", "s", "s", " ", "l", "e", "v", "e", "l">>
TextResourceTypes ==
    <<"R", "e", "s", "o", "u", "r", "c", "e", " ", "t", "y", "p", "e",
      "s">>
TextARN == <<"A", "R", "N">>
TextConditionKeys ==
    <<"C", "o", "n", "d", "i", "t", "i", "o", "n", " ", "k", "e", "y",
      "s">>
TextType == <<"T", "y", "p", "e">>
TextDescription ==
    <<"D", "e", "s", "c", "r", "i", "p", "t", "i", "o", "n">>

\* The th cells of the tables a page is read with, as get_text() returns
\* them: the three tables of a reference page, a table of none of the
\* three kinds, a table with one of the two texts only, headers in lower
\* case, headers with blanks around them, headers with further text, and
\* a table with the texts of two kinds.
HeaderLists ==
    {<<TextActions, TextDescription, TextAccessLevel,
       TextResourceTypes \o <<" ", "(", "*", "r", ")">>, TextConditionKeys>>,
     <<TextResourceTypes, TextARN, TextConditionKeys>>,
     <<TextConditionKeys, TextDescription, TextType>>,
     <<TextDescription>>,
     <<TextActions, TextDescription>>,
     <<Lower(TextActions), Lower(TextAccessLevel)>>,
     <<<<" ">> \o TextActions, TextAccessLevel \o <<" ">>>>,
     <<TextActions \o <<" ", "(", "a", ")">>, TextAccessLevel>>,
     <<TextResourceTypes, TextARN, TextActions, TextAccessLevel>>}

\* headers = [th.get_text().strip() for th in table.find_all("th")]
StripAll(th_texts) == [k \in DOMAIN th_texts |-> Strip(th_texts[k])]

\* The if / elif chain over the stripped header texts of a table.
Classify(stripped) ==
    IF TextActions \in Range(stripped) /\ TextAccessLevel \in Range(stripped)
    THEN "actions"
    ELSE IF TextResourceTypes \in Range(stripped) /\ TextARN \in Range(stripped)
    THEN "resources"
    ELSE IF TextConditionKeys \in Range(stripped) /\ TextType \in Range(stripped)
    THEN "condition_keys"
    ELSE "none"

\* The cell counts a row of a resource types or condition keys table is
\* read with: a row of one cell is skipped.
OtherCellCounts == {1, 2, 3}

\* The texts the first two cells of such a row are read with.
CellTexts == {<<>>, <<"r", " ">>}

\* The default type of a condition key.
TextString == <<"S", "t", "r", "i", "n", "g">>

\* The record of a row of the resource types table.
ResourceRecord(resource_name, arn) ==
    [name |-> resource_name,
     arnFormats |-> IF arn # <<>> THEN <<arn>> ELSE <<>>]

\* The record of a row of the condition keys table.
ConditionKeyRecord(key_name, key_type) ==
    [name |-> key_name,
     types |-> IF key_type # <<>> THEN <<key_type>> ELSE <<TextString>>]

\* The loop over the anchors of column 3 of a primary row: every non-empty
\* name is appended, a name with "*" sets the flag.
RECURSIVE PrimaryLinks(_, _)
PrimaryLinks(action_data, resource_links) ==
    IF resource_links = <<>> THEN action_data
    ELSE LET resource_name == Strip(Head(resource_links))
             next == IF resource_name # <<>>
                     THEN [action_data EXCEPT
                             !.resources = Append(@, resource_name),
                             !.supportsResourceLevelPermissions =
                                 @ \/ HasStar(resource_name)]
                     ELSE action_data
         IN PrimaryLinks(next, Tail(resource_links))

\* The loop over the anchors of cell 0 of a continuation row: a non-empty
\* name that is not in the list yet is appended, a name with "*" that is
\* appended sets the flag.
RECURSIVE ContinuationLinks(_, _)
ContinuationLinks(action_data, resource_links) ==
    IF resource_links = <<>> THEN action_data
    ELSE LET resource_name == Strip(Head(resource_links))
             next == IF /\ resource_name # <<>>
                        /\ resource_name \notin Range(action_data.resources)
                     THEN [action_data EXCEPT
                             !.resources = Append(@, resource_name),
                             !.supportsResourceLevelPermissions =
                                 @ \/ HasStar(resource_name)]
                     ELSE action_data
         IN ContinuationLinks(next, Tail(resource_links))

\* The action_data dict of a primary row; table and from_primary are
\* history: the table the row is in and the length of the resource list
\* when the row has been read.
NewAction(table, resource_links) ==
    LET action_data ==
            PrimaryLinks([resources |-> <<>>,
                          supportsResourceLevelPermissions |-> FALSE,
                          table |-> table, from_primary |-> 0],
                         resource_links)
    IN [action_data EXCEPT !.from_primary = Len(action_data.resources)]

\* The action_data dict fetch_service_data builds from one JSON action.
JsonAction(json_resources) ==
    [resources |-> json_resources,
     supportsResourceLevelPermissions |-> Len(json_resources) > 0,
     table |-> 0, from_primary |-> Len(json_resources)]

ParseInit ==
    /\ source \in {"html", "json"}
    /\ actions = <<>>
    /\ current_action = 0
    /\ table_kind = ""
    /\ headers = <<>>
    /\ resources = <<>>
    /\ condition_keys = <<>>
    /\ tables = 0
    /\ rows = 0
    /\ last_row = None
    /\ parse_done = FALSE
    /\ MainIdle
    /\ DepIdle
    /\ ResolveIdle
    /\ AccessIdle
    /\ PoolIdle

\* Mutant: current_action is set once before the loop over the tables.
BeginTable_keeps_current ==
    /\ source = "html"
    /\ ~parse_done
    /\ tables < MaxTables
    /\ \E th_texts \in HeaderLists :
         /\ headers' = StripAll(th_texts)
         /\ table_kind' = Classify(headers')
    /\ tables' = tables + 1
    /\ UNCHANGED <<notParse, source, actions, resources, condition_keys, rows,
                   last_row, parse_done, current_action>>

\* "for table in tables": the headers of the next table are read and the
\* branch is chosen; the actions branch starts with current_action = None.
BeginTable ==
    /\ source = "html"
    /\ ~parse_done
    /\ tables < MaxTables
    /\ \E th_texts \in HeaderLists :
         /\ headers' = StripAll(th_texts)
         /\ table_kind' = Classify(headers')
         /\ current_action' =
              IF Classify(headers') = "actions" THEN 0 ELSE current_action
    /\ tables' = tables + 1
    /\ UNCHANGED <<notParse, source, actions, resources, condition_keys, rows,
                   last_row, parse_done>>

\* One iteration of "for row in rows" in the actions branch.
ActionsTableRow ==
    /\ source = "html"
    /\ ~parse_done
    /\ table_kind = "actions"
    /\ rows < MaxRows
    /\ \E num_cells \in CellCounts, resource_links \in LinkLists :
         /\ last_row' = [num_cells |-> num_cells, links |-> resource_links]
         /\ IF num_cells >= 6
            THEN /\ actions' =
                      Append(actions, NewAction(tables, resource_links))
                 /\ current_action' = Len(actions) + 1
            ELSE IF num_cells = 3 /\ current_action # 0
            THEN /\ actions' = [actions EXCEPT ![current_action] =
                                   ContinuationLinks(@, resource_links)]
                 /\ UNCHANGED current_action
            ELSE UNCHANGED <<actions, current_action>>
    /\ rows' = rows + 1
    /\ UNCHANGED <<notParse, source, table_kind, headers, resources,
                   condition_keys, tables, parse_done>>

\* One iteration of "for row in rows" in the resource types branch.
ResourcesTableRow ==
    /\ source = "html"
    /\ ~parse_done
    /\ table_kind = "resources"
    /\ rows < MaxRows
    /\ \E num_cells \in OtherCellCounts, text0, text1 \in CellTexts :
         /\ last_row' = [num_cells |-> num_cells, links |-> <<>>]
         /\ IF num_cells >= 2 /\ Strip(text0) # <<>>
            THEN resources' =
                     Append(resources,
                            ResourceRecord(Strip(text0), Strip(text1)))
            ELSE UNCHANGED resources
    /\ rows' = rows + 1
    /\ UNCHANGED <<notParse, source, actions, current_action, table_kind,
                   headers, condition_keys, tables, parse_done>>

\* One iteration of "for row in rows" in the condition keys branch.
ConditionKeysTableRow ==
    /\ source = "html"
    /\ ~parse_done
    /\ table_kind = "condition_keys"
    /\ rows < MaxRows
    /\ \E num_cells \in OtherCellCounts, text0, text1 \in CellTexts :
         /\ last_row' = [num_cells |-> num_cells, links |-> <<>>]
         /\ IF num_cells >= 2 /\ Strip(text0) # <<>>
            THEN condition_keys' =
                     Append(condition_keys,
                            ConditionKeyRecord(Strip(text0), Strip(text1)))
            ELSE UNCHANGED condition_keys
    /\ rows' = rows + 1
    /\ UNCHANGED <<notParse, source, actions, current_action, table_kind,
                   headers, resources, tables, parse_done>>

\* fetch_service_data: one iteration of "for action in data.get("Actions")".
ProcessJsonAction ==
    /\ source = "json"
    /\ ~parse_done
    /\ rows < MaxRows
    /\ \E json_resources \in LinkLists :
         /\ actions' = Append(actions, JsonAction(json_resources))
         /\ last_row' = [num_cells |-> 0, links |-> json_resources]
    /\ rows' = rows + 1
    /\ UNCHANGED <<notParse, source, current_action, table_kind, headers,
                   resources, condition_keys, tables, parse_done>>

\* The loops are over and the record is returned.
ReturnRecord ==
    /\ ~parse_done
    /\ parse_done' = TRUE
    /\ table_kind' = ""
    /\ UNCHANGED <<notParse, source, actions, current_action, headers,
                   resources, condition_keys, tables, rows, last_row>>

ParseNext ==
    \/ BeginTable
    \/ ActionsTableRow
    \/ ResourcesTableRow
    \/ ConditionKeysTableRow
    \/ ProcessJsonAction
    \/ ReturnRecord

ParseSpec == ParseInit /\ [][ParseNext]_vars

\* ------------------------------------------------------ parser properties
IsPrefix(s, u) == Len(s) <= Len(u) /\ SubSeq(u, 1, Len(s)) = s

\* The names a row's anchors carry, blanks stripped, empty ones left out.
LinkNames(resource_links) ==
    {Strip(resource_links[k]) : k \in DOMAIN resource_links} \ {<<>>}

\* A step that reads a 3-cell row of an operations table.
ContinuationStep ==
    /\ rows' = rows + 1
    /\ table_kind = "actions"
    /\ last_row'.num_cells = 3

\* A primary row of the table being read has created a record.
PrimaryRowSeen == \E k \in DOMAIN actions : actions[k].table = tables

ContinuationEffect ==
    IF ~PrimaryRowSeen
    THEN actions' = actions
    ELSE LET last == Len(actions)
             old == actions[last].resources
             new == actions'[last].resources
         IN /\ Len(actions') = Len(actions)
            /\ \A k \in 1..(last - 1) : actions'[k] = actions[k]
            /\ actions[last].table = tables
            /\ IsPrefix(old, new)
            /\ \A k \in (Len(old) + 1)..Len(new) :
                  /\ new[k] \notin Range(old)
                  /\ new[k] \in LinkNames(last_row'.links)
                  /\ \A j \in (Len(old) + 1)..(k - 1) : new[j] # new[k]
            /\ LinkNames(last_row'.links) \subseteq Range(new)

\* C7: a 3-cell row of an operations table changes only the record created
\* last, and only when a primary row of the same table created it: that
\* record's resource list is extended by the row's names that it does not
\* hold yet, each once.  A 3-cell row before any primary row of its table
\* changes no record, also none created from an earlier table.
C7_ContinuationRow == [][ContinuationStep => ContinuationEffect]_vars

\* A continuation row has extended the record of the primary row before it
\* with a new name and has left out a name the record already held.
C7_Witness ==
    /\ last_row # None
    /\ last_row.num_cells = 3
    /\ table_kind = "actions"
    /\ actions # <<>>
    /\ LET last == actions[Len(actions)]
       IN /\ last.table = tables
          /\ Len(last.resources) > last.from_primary
          /\ \E k \in 1..last.from_primary :
                last.resources[k] \in LinkNames(last_row.links)

\* C8: in the returned record, supportsResourceLevelPermissions of an
\* operation is true exactly if its resource list is non-empty or holds a
\* wildcard-marked entry.
C8_SupportsIffResources ==
    parse_done =>
        \A k \in DOMAIN actions :
            actions[k].supportsResourceLevelPermissions
                <=> (\/ actions[k].resources # <<>>
                     \/ \E j \in DOMAIN actions[k].resources :
                            HasStar(actions[k].resources[j]))

\* What the two sources do: the JSON source sets the flag exactly for a
\* non-empty resource list, the HTML source exactly for a list that holds
\* a name with "*".
C8_SupportsPerSource ==
    parse_done =>
        \A k \in DOMAIN actions :
            actions[k].supportsResourceLevelPermissions
                <=> IF source = "json"
                    THEN actions[k].resources # <<>>
                    ELSE \E j \in DOMAIN actions[k].resources :
                             HasStar(actions[k].resources[j])


\* No name occurs twice in the list.
NoDuplicates(list) ==
    \A j, k \in DOMAIN list : j # k => list[j] # list[k]

\* C14: at every point of the reading of an operations table, the resource
\* list of every operation record holds each name at most once, whether the
\* names came from the primary row or from continuation rows.
C14_ResourcesUnique ==
    source = "html" =>
        \A k \in DOMAIN actions : NoDuplicates(actions[k].resources)

\* What the row loop does: the names a primary row gave are kept as read,
\* repeats included; the names continuation rows added after them repeat
\* no earlier name of the list.
C14_ContinuationsUnique ==
    source = "html" =>
        \A k \in DOMAIN actions :
            LET list == actions[k].resources
            IN \A j \in (actions[k].from_primary + 1)..Len(list) :
                   \A h \in 1..(j - 1) : list[h] # list[j]

\* A continuation row has added a new name to a record whose primary row
\* named a resource twice.
C14_ContinuationWitness ==
    /\ source = "html"
    /\ \E k \in DOMAIN actions :
         /\ Len(actions[k].resources) > actions[k].from_primary
         /\ ~NoDuplicates(SubSeq(actions[k].resources, 1,
                                 actions[k].from_primary))

\* Some header text of the table being read contains the word, letter case
\* aside.
HeaderContains(word) ==
    \E k \in DOMAIN headers : Contains(Lower(word), Lower(headers[k]))

\* Some header text of the table being read is the word.
HeaderIs(word) == \E k \in DOMAIN headers : headers[k] = word

\* C13: the table being read is parsed as the operations table exactly if
\* its header texts contain "Actions" and "Access level", letter case aside
\* and as parts of longer texts; failing that, as the resource types table
\* exactly if they contain "Resource types" and "ARN"; failing that, as the
\* condition keys table exactly if they contain "Condition keys" and
\* "Type".
C13_SubstringSignature ==
    table_kind # "" =>
        LET ops == HeaderContains(TextActions)
                       /\ HeaderContains(TextAccessLevel)
            res == HeaderContains(TextResourceTypes) /\ HeaderContains(TextARN)
            cond == HeaderContains(TextConditionKeys)
                       /\ HeaderContains(TextType)
        IN /\ table_kind = "actions" <=> ops
           /\ table_kind = "resources" <=> ~ops /\ res
           /\ table_kind = "condition_keys" <=> ~ops /\ ~res /\ cond

\* What the if / elif chain does: the same with equality of the stripped
\* header texts in place of containment.
C13_ExactSignature ==
    table_kind # "" =>
        LET ops == HeaderIs(TextActions) /\ HeaderIs(TextAccessLevel)
            res == HeaderIs(TextResourceTypes) /\ HeaderIs(TextARN)
            cond == HeaderIs(TextConditionKeys) /\ HeaderIs(TextType)
        IN /\ table_kind = "actions" <=> ops
           /\ table_kind = "resources" <=> ~ops /\ res
           /\ table_kind = "condition_keys" <=> ~ops /\ ~res /\ cond
           /\ table_kind = "none" <=> ~ops /\ ~res /\ ~cond

\* While a table that matches no branch is the one being read, no record
\* of any kind is added; the rows of a table of one kind add no record of
\* another kind.
C13_OwnRecordsOnly ==
    [][/\ table_kind = "none" =>
             UNCHANGED <<actions, resources, condition_keys>>
       /\ table_kind = "actions" => UNCHANGED <<resources, condition_keys>>
       /\ table_kind = "resources" => UNCHANGED <<actions, condition_keys>>
       /\ table_kind = "condition_keys" => UNCHANGED <<actions, resources>>
      ]_vars

\* The second table of a page is read as the resource types table and has
\* given a record, although "Condition keys" is among its headers and
\* "Type" is part of one; no operations table came before it.
C13_ExactWitness ==
    /\ table_kind = "resources"
    /\ tables = 2
    /\ actions = <<>>
    /\ resources # <<>>
    /\ HeaderContains(TextConditionKeys) /\ HeaderContains(TextType)

\* ================================================= dependency extraction
\* The extraction of "service:Action" references from the last cell of an
\* operation row: fetch_iam_full.py lines 134-142 and
\* fetch_iam_data_with_dependent.py lines 149-173.  A cell is a list of
\* pieces, each plain text or the text of an anchor; get_text() is their
\* concatenation.

\* The largest number of pieces of a cell.
MaxPieces == 3

Digits == {"0", "1", "2", "3", "4", "5", "6", "7", "8", "9"}

\* [a-z0-9-]
IsServiceChar(c) == c \in Range(LowerLetters) \cup Digits \cup {"-"}

\* [A-Z]
IsUpper(c) == c \in Range(UpperLetters)

\* [a-zA-Z0-9]
IsAlnum(c) == c \in Range(LowerLetters) \cup Range(UpperLetters) \cup Digits

\* The first position from p on whose character is not a service
\* character: where the greedy [a-z0-9-]+ stops.
RECURSIVE ServiceRunEnd(_, _)
ServiceRunEnd(text, p) ==
    IF p <= Len(text) /\ IsServiceChar(text[p])
    THEN ServiceRunEnd(text, p + 1)
    ELSE p

\* Where the greedy [a-zA-Z0-9]+ stops.
RECURSIVE AlnumRunEnd(_, _)
AlnumRunEnd(text, p) ==
    IF p <= Len(text) /\ IsAlnum(text[p])
    THEN AlnumRunEnd(text, p + 1)
    ELSE p

\* The match of ([a-z0-9-]+):([A-Z][a-zA-Z0-9]+) that starts at p: the
\* positions of the colon and of the last character, colon 0 when there is
\* none.  The greedy first group has to end right before the colon, since
\* no shorter run is followed by one.
MatchAt(text, p) ==
    LET q == ServiceRunEnd(text, p)
    IN IF /\ q > p
          /\ q + 2 <= Len(text)
          /\ text[q] = ":"
          /\ IsUpper(text[q + 1])
          /\ IsAlnum(text[q + 2])
       THEN [colon |-> q, last |-> AlnumRunEnd(text, q + 2) - 1]
       ELSE [colon |-> 0, last |-> 0]

\* f"{svc}:{act}" of one match.
Reference(text, p, m) ==
    SubSeq(text, p, m.colon - 1) \o <<":">> \o SubSeq(text, m.colon + 1, m.last)

\* re.findall(pattern, cell_text) and the join of each match: the
\* leftmost matches from left to right, none overlapping.
RECURSIVE FindAll(_, _, _)
FindAll(text, p, found) ==
    IF p > Len(text) THEN found
    ELSE LET m == MatchAt(text, p)
         IN IF m.colon = 0
            THEN FindAll(text, p + 1, found)
            ELSE FindAll(text, m.last + 1,
                         Append(found, Reference(text, p, m)))

\* get_text() of a cell.
RECURSIVE GetText(_)
GetText(pieces) ==
    IF pieces = <<>> THEN <<>>
    ELSE Head(pieces).text \o GetText(Tail(pieces))

\* find_all("a"): the anchors of a cell.
Anchors(pieces) == SelectSeq(pieces, LAMBDA piece : piece.link)

\* The loop over the anchors in scrape_dependent_actions: an anchor text
\* with a colon that is not in the list yet is appended.
RECURSIVE AddLinks(_, _)
AddLinks(dependent_actions, dependent_links) ==
    IF dependent_links = <<>> THEN dependent_actions
    ELSE LET dep_action == Strip(Head(dependent_links).text)
         IN AddLinks(IF /\ dep_action # <<>>
                        /\ ":" \in Range(dep_action)
                        /\ dep_action \notin Range(dependent_actions)
                     THEN Append(dependent_actions, dep_action)
                     ELSE dependent_actions,
                     Tail(dependent_links))

\* The texts the pieces of a cell are taken from.
S3GetObject == 
    <<"s", "3", ":", "G", "e", "t", "O", "b", "j", "e", "c", "t">>
S3PutObject == 
    <<"s", "3", ":", "P", "u", "t", "O", "b", "j", "e", "c", "t">>
CommaBlank == <<",", " ">>
PieceTexts ==
    {S3GetObject, S3PutObject, CommaBlank,
     <<"k", "m", "s", ":", "D", "e", "c", "r", "y", "p", "t">>,
     <<"i", "a", "m", ":", "p", "a", "s", "s", "R", "o", "l", "e">>, <<"x">>}

Pieces == [text : PieceTexts, link : BOOLEAN]

Cells == UNION {[1..n -> Pieces] : n \in 0..MaxPieces}

DepInit ==
    /\ dep_source \in {"full", "dependent"}
    /\ cell \in Cells
    /\ dependentActions = <<>>
    /\ dep_done = FALSE
    /\ MainIdle
    /\ ParseIdle
    /\ ResolveIdle
    /\ AccessIdle
    /\ PoolIdle

\* fetch_iam_full.py: the dependent actions of a primary row.
ExtractFull ==
    /\ dep_source = "full"
    /\ ~dep_done
    /\ dependentActions' = FindAll(Strip(GetText(cell)), 1, <<>>)
    /\ dep_done' = TRUE
    /\ UNCHANGED <<notDep, dep_source, cell>>

\* fetch_iam_data_with_dependent.py: the dependent actions of a row.
ExtractDependent ==
    /\ dep_source = "dependent"
    /\ ~dep_done
    /\ dependentActions' =
          AddLinks(FindAll(Strip(GetText(cell)), 1, <<>>), Anchors(cell))
    /\ dep_done' = TRUE
    /\ UNCHANGED <<notDep, dep_source, cell>>

DepNext ==
    \/ ExtractFull
    \/ ExtractDependent

DepSpec == DepInit /\ [][DepNext]_vars

\* -------------------------------------------------- extraction properties
\* "s3:GetObject, s3:PutObject"
ExampleText == S3GetObject \o CommaBlank \o S3PutObject

\* C9: the extracted list holds no reference twice, also when the text
\* repeats one, and the text "s3:GetObject, s3:PutObject" yields exactly
\* s3:GetObject, s3:PutObject.
C9_NoDuplicates ==
    dep_done =>
        /\ \A a, b \in DOMAIN dependentActions :
              a # b => dependentActions[a] # dependentActions[b]
        /\ GetText(cell) = ExampleText =>
              dependentActions = <<S3GetObject, S3PutObject>>

\* The example of C9 alone: the text "s3:GetObject, s3:PutObject" yields
\* exactly s3:GetObject, s3:PutObject, whichever pieces are anchors.
C9_ExampleExact ==
    (dep_done /\ GetText(cell) = ExampleText) =>
        dependentActions = <<S3GetObject, S3PutObject>>


\* ======================================================== page resolver
\* get_service_doc_url of fetch_iam_full.py, and the loop over urls_to_try
\* of scrape_dependent_actions in fetch_iam_data_with_dependent.py.  File
\* names are tuples of characters; a URL is the base followed by "/" and
\* the file name.

DOCS_BASE_URL ==
    "https://docs.aws.amazon.com/service-authorization/latest/reference"

Url(file) == <<DOCS_BASE_URL, "/">> \o file

\* res_service.replace("-", "").replace("_", "")
StripSeparators(name) == SelectSeq(name, LAMBDA c : c \notin {"-", "_"})

\* normalize_service_name
normalize_service_name(name) ==
    LET stripped == StripSeparators(name)
    IN [k \in DOMAIN stripped |-> ToLower(stripped[k])]

IamFile == 
    <<"l", "i", "s", "t", "_", "a", "w", "s", "i", "d", "e", "n", "t", "i",
    "t", "y", "a", "n", "d", "a", "c", "c", "e", "s", "s", "m", "a", "n",
    "a", "g", "e", "m", "e", "n", "t", "i", "a", "m", ".", "h", "t", "m",
    "l">>

SERVICE_SPECIAL_CASES ==
    (<<"i", "a", "m">> :> IamFile)
    @@ (
     <<"i", "d", "e", "n", "t", "i", "t", "y", "a", "n", "d", "a", "c", "c",
     "e", "s", "s", "m", "a", "n", "a", "g", "e", "m", "e", "n", "t">> :> IamFile)
    @@ (<<"g", "l", "u", "e">> :>
           <<"l", "i", "s", "t", "_", "a", "w", "s", "g", "l", "u", "e", ".",
           "h", "t", "m", "l">>)

\* pattern.format(service=...) of a pattern "<prefix>{service}.html"
Format(prefix, service) == prefix \o service \o <<".", "h", "t", "m", "l">>

ListAmazon == 
    <<"l", "i", "s", "t", "_", "a", "m", "a", "z", "o", "n">>
ListAws == <<"l", "i", "s", "t", "_", "a", "w", "s">>
ListPlain == <<"l", "i", "s", "t", "_">>

\* The prefixes of SERVICE_URL_PATTERNS, in list order.
SERVICE_URL_PATTERNS == <<ListAmazon, ListAws, ListPlain>>

\* The prefixes of urls_to_try in scrape_dependent_actions, in list order.
urls_to_try == <<ListPlain, ListAws, ListAmazon>>

\* The answers to one request: a final status, or an exception (a
\* connection error, a timeout).
Raised == [raised |-> TRUE]
Responses == {[status |-> code] : code \in {200, 204, 404, 503}} \cup {Raised}

\* response.status_code == 200, with the exception handled by the caller.
IsOk(response) == response # Raised /\ response.status = 200

NotFound == [not_found |-> TRUE]

\* "Identity-And-Access-Management"
ExampleName ==
    <<"I", "d", "e", "n", "t", "i", "t", "y", "-", "A", "n", "d", "-", "A",
    "c", "c", "e", "s", "s", "-", "M", "a", "n", "a", "g", "e", "m", "e",
    "n", "t">>

\* The service identifiers the search is called with.
ServiceNames ==
    {ExampleName,
     <<"i", "a", "m">>, <<"I", "_", "A", "M">>,
     <<"g", "l", "u", "e">>, <<"G", "l", "u", "e">>,
     <<"s", "3">>, <<"s", "3", "-", "o", "u", "t", "p", "o", "s", "t", "s">>}

ResolveInit ==
    /\ res_source \in {"full", "dependent"}
    /\ res_service \in ServiceNames
    /\ res_pc = "call"
    /\ next_url = 0
    /\ probes = <<>>
    /\ resolved = None
    /\ MainIdle
    /\ ParseIdle
    /\ DepIdle
    /\ AccessIdle
    /\ PoolIdle

\* The call: the identifier is normalized and looked up in the table of
\* special cases (get_service_doc_url), or the list of URLs is built
\* (scrape_dependent_actions).
CallResolver ==
    /\ res_pc = "call"
    /\ res_pc' = IF /\ res_source = "full"
                    /\ normalize_service_name(res_service)
                           \in DOMAIN SERVICE_SPECIAL_CASES
                 THEN "special"
                 ELSE "patterns"
    /\ next_url' = 1
    /\ UNCHANGED <<notResolve, res_source, res_service, probes, resolved>>

\* get_service_doc_url: the HEAD request for the special case's URL.
ProbeSpecialCase ==
    /\ res_source = "full"
    /\ res_pc = "special"
    /\ \E response \in Responses :
         LET url == Url(SERVICE_SPECIAL_CASES[
                            normalize_service_name(res_service)])
         IN /\ probes' = Append(probes, [url |-> url, response |-> response])
            /\ IF IsOk(response)
               THEN resolved' = url /\ res_pc' = "done"
               ELSE resolved' = resolved /\ res_pc' = "patterns"
    /\ UNCHANGED <<notResolve, res_source, res_service, next_url>>

\* get_service_doc_url: one iteration of the loop over the patterns; the
\* function returns None behind the last one.
ProbePattern ==
    /\ res_source = "full"
    /\ res_pc = "patterns"
    /\ \E response \in Responses :
         LET url == Url(Format(SERVICE_URL_PATTERNS[next_url],
                               normalize_service_name(res_service)))
         IN /\ probes' = Append(probes, [url |-> url, response |-> response])
            /\ IF IsOk(response)
               THEN resolved' = url /\ res_pc' = "done" /\ next_url' = next_url
               ELSE IF next_url = Len(SERVICE_URL_PATTERNS)
               THEN resolved' = NotFound /\ res_pc' = "done"
                    /\ next_url' = next_url
               ELSE resolved' = resolved /\ res_pc' = res_pc
                    /\ next_url' = next_url + 1
    /\ UNCHANGED <<notResolve, res_source, res_service>>

\* scrape_dependent_actions: one iteration of the loop over urls_to_try.
\* An exception leaves the function through its except clause, which
\* returns {}; so does a last answer that is not 200.
ProbeDocUrl ==
    /\ res_source = "dependent"
    /\ res_pc = "patterns"
    /\ \E response \in Responses :
         LET url == Url(Format(urls_to_try[next_url],
                               StripSeparators(res_service)))
         IN /\ probes' = Append(probes, [url |-> url, response |-> response])
            /\ IF response = Raised
               THEN resolved' = NotFound /\ res_pc' = "done"
                    /\ next_url' = next_url
               ELSE IF IsOk(response)
               THEN resolved' = url /\ res_pc' = "done" /\ next_url' = next_url
               ELSE IF next_url = Len(urls_to_try)
               THEN resolved' = NotFound /\ res_pc' = "done"
                    /\ next_url' = next_url
               ELSE resolved' = resolved /\ res_pc' = res_pc
                    /\ next_url' = next_url + 1
    /\ UNCHANGED <<notResolve, res_source, res_service>>

ResolveNext ==
    \/ CallResolver
    \/ ProbeSpecialCase
    \/ ProbePattern
    \/ ProbeDocUrl

ResolveSpec == ResolveInit /\ [][ResolveNext]_vars

\* ---------------------------------------------------- resolver properties
\* The candidates in the order C10 states: the override of the normalized
\* identifier when the table has one, then amazon{name}, aws{name}, {name}.
Candidates(name) ==
    LET normalized == normalize_service_name(name)
    IN (IF normalized \in DOMAIN SERVICE_SPECIAL_CASES
        THEN <<Url(SERVICE_SPECIAL_CASES[normalized])>>
        ELSE <<>>)
       \o <<Url(Format(ListAmazon, normalized)),
            Url(Format(ListAws, normalized)),
            Url(Format(ListPlain, normalized))>>

ProbedUrls == [k \in DOMAIN probes |-> probes[k].url]

\* The search has made the requests for the first candidates in their
\* order, none behind a request answered with 200; it ends with the URL
\* answered with 200, or with NotFound behind the last candidate.
OrderedSearch ==
    /\ IsPrefix(ProbedUrls, Candidates(res_service))
    /\ \A k \in 1..(Len(probes) - 1) : ~IsOk(probes[k].response)
    /\ res_pc = "done" =>
          /\ probes # <<>>
          /\ IF IsOk(probes[Len(probes)].response)
             THEN resolved = probes[Len(probes)].url
             ELSE /\ resolved = NotFound
                  /\ Len(probes) = Len(Candidates(res_service))
    /\ res_pc # "done" => resolved = None

\* "Identity-And-Access-Management" is probed first at the overridden URL.
ExampleFirst ==
    (res_service = ExampleName
        /\ probes # <<>>) => probes[1].url = Url(IamFile)

\* C10: every search probes the candidates in the stated order (override
\* first, then amazon{name}, aws{name}, {name}), returns the first one
\* answered with success, probes nothing behind it, and ends with NotFound
\* exactly when every candidate's probe failed or raised.
C10_ResolverOrder == OrderedSearch /\ ExampleFirst

\* The same for get_service_doc_url alone.
C10_FullResolverOrder == res_source = "full" => (OrderedSearch /\ ExampleFirst)

\* get_service_doc_url has found the page of the example identifier at the
\* second template, behind a failed override and a raising first template.
C10_FullWitness ==
    /\ res_source = "full"
    /\ res_pc = "done"
    /\ res_service = ExampleName
    /\ Len(probes) = 3
    /\ probes[2].response = Raised
    /\ resolved = Url(Format(ListAws, normalize_service_name(res_service)))


\* ============================================================ access level
\* The access level of an operation: get_access_level (fetch_iam_data.py,
\* fetch_iam_data_with_dependent.py) over the Annotations.Properties of a
\* JSON action, and lines 103 and 155-164 of fetch_iam_full.py over the text
\* of cell 2 of a primary row.

\* The strings get_access_level returns.
LevelList == <<"L", "i", "s", "t">>
LevelWrite == <<"W", "r", "i", "t", "e">>
LevelPermissions ==
    <<"P", "e", "r", "m", "i", "s", "s", "i", "o", "n", "s", " ",
      "m", "a", "n", "a", "g", "e", "m", "e", "n", "t">>
LevelTagging == <<"T", "a", "g", "g", "i", "n", "g">>
LevelRead == <<"R", "e", "a", "d">>

\* The keys of Annotations.Properties that get_access_level reads.  A
\* Properties dict is modelled by the set of its keys with a truthy value:
\* props.get(key) is falsy for a missing key as for a false value.
PropertyKeys == {"IsList", "IsWrite", "IsPermissionManagement", "IsTaggingOnly"}

\* The if / elif chain of get_access_level.
get_access_level(props) ==
    IF "IsList" \in props THEN LevelList
    ELSE IF "IsWrite" \in props THEN LevelWrite
    ELSE IF "IsPermissionManagement" \in props THEN LevelPermissions
    ELSE IF "IsTaggingOnly" \in props THEN LevelTagging
    ELSE LevelRead

\* The words looked for in the lower-cased access level text.
WordList == <<"l", "i", "s", "t">>
WordRead == <<"r", "e", "a", "d">>
WordWrite == <<"w", "r", "i", "t", "e">>
WordPermission == <<"p", "e", "r", "m", "i", "s", "s", "i", "o", "n">>
WordManagement == <<"m", "a", "n", "a", "g", "e", "m", "e", "n", "t">>
WordTagging == <<"t", "a", "g", "g", "i", "n", "g">>

\* action_data["properties"] of a primary row, as the set of the keys that
\* are True.
RowProperties(access) ==
    {key \in PropertyKeys \cup {"IsRead"} :
        \/ key = "IsList" /\ Contains(WordList, access)
        \/ key = "IsRead" /\ Contains(WordRead, access)
                          /\ ~Contains(WordWrite, access)
        \/ key = "IsWrite" /\ Contains(WordWrite, access)
        \/ key = "IsPermissionManagement"
              /\ (Contains(WordPermission, access)
                  \/ Contains(WordManagement, access))
        \/ key = "IsTaggingOnly" /\ Contains(WordTagging, access)}

\* The action_data dict of a JSON action, as far as the access level goes.
JsonAccess(props) ==
    [input |-> props,
     accessLevel |-> get_access_level(props),
     properties |-> props]

\* The action_data dict of a primary row, as far as the access level goes:
\* accessLevel is the stripped text of cell 2 as it stands.
RowAccess(cell_text) ==
    LET accessLevel == Strip(cell_text)
    IN [input |-> cell_text,
        accessLevel |-> accessLevel,
        properties |-> RowProperties(Lower(accessLevel))]

\* The texts cell 2 of a primary row is read with.
AccessTexts ==
    {LevelList, LevelWrite, LevelRead, LevelPermissions, LevelTagging,
     <<" ">> \o LevelList, WordWrite, <<>>}

AccessInit ==
    /\ acc_source \in {"json", "html"}
    /\ acc_actions = <<>>
    /\ acc_done = FALSE
    /\ MainIdle
    /\ ParseIdle
    /\ DepIdle
    /\ ResolveIdle
    /\ PoolIdle

\* fetch_service_data: one iteration of "for action in data.get("Actions")".
ReadJsonAction ==
    /\ acc_source = "json"
    /\ ~acc_done
    /\ Len(acc_actions) < MaxRows
    /\ \E props \in SUBSET PropertyKeys :
         acc_actions' = Append(acc_actions, JsonAccess(props))
    /\ UNCHANGED <<notAccess, acc_source, acc_done>>

\* scrape_service_data: one primary row of the operations table.
ReadPrimaryRow ==
    /\ acc_source = "html"
    /\ ~acc_done
    /\ Len(acc_actions) < MaxRows
    /\ \E cell_text \in AccessTexts :
         acc_actions' = Append(acc_actions, RowAccess(cell_text))
    /\ UNCHANGED <<notAccess, acc_source, acc_done>>

\* The loop is over.
AccessReturn ==
    /\ ~acc_done
    /\ acc_done' = TRUE
    /\ UNCHANGED <<notAccess, acc_source, acc_actions>>

AccessNext ==
    \/ ReadJsonAction
    \/ ReadPrimaryRow
    \/ AccessReturn

AccessSpec == AccessInit /\ [][AccessNext]_vars

\* ------------------------------------------------ access level properties
\* The input indicates a level: the property is set in the JSON source, the
\* word occurs in the text (letter case aside) in the HTML source.
Indicates(input, key, words) ==
    IF acc_source = "json"
    THEN key \in input
    ELSE \E word \in words : Contains(word, Lower(input))

\* The level the priority order gives to an input.
LevelByPriority(input) ==
    IF Indicates(input, "IsList", {WordList}) THEN LevelList
    ELSE IF Indicates(input, "IsWrite", {WordWrite}) THEN LevelWrite
    ELSE IF Indicates(input, "IsPermissionManagement",
                      {WordPermission, WordManagement})
    THEN LevelPermissions
    ELSE IF Indicates(input, "IsTaggingOnly", {WordTagging}) THEN LevelTagging
    ELSE LevelRead

\* C11: every operation has the access level the priority order gives to
\* its input: List, else Write, else Permissions management, else Tagging,
\* else Read.
C11_LevelByPriority ==
    \A k \in DOMAIN acc_actions :
        acc_actions[k].accessLevel = LevelByPriority(acc_actions[k].input)

\* What get_access_level does: the JSON source follows the priority order.
C11_JsonByPriority == acc_source = "json" => C11_LevelByPriority

\* A JSON action that is both a list and a write operation has been given
\* the level List.
C11_JsonWitness ==
    /\ acc_source = "json"
    /\ \E k \in DOMAIN acc_actions :
         /\ {"IsList", "IsWrite"} \subseteq acc_actions[k].input
         /\ acc_actions[k].accessLevel = LevelList


\* ============================================================ thread pool
\* Lines 119-138 of main() in fetch_iam_data.py (210-225 in
\* fetch_iam_data_with_dependent.py) for a directory of more services than
\* the pool has threads.  The order of all_data and failed is the subject
\* of Spec; here each list is the bag of its elements.

\* The largest number of services of the directory.
MaxPoolServices == 11

\* The directory sizes a run is started with: an empty directory, one
\* service, and more services than the pool has threads.
PoolSizes == {0, 1, MaxPoolServices}

PoolIds == 1..pool_services

\* The inputs: every fetch succeeds, or the fetches of the services at the
\* odd places of the directory raise.
Raising(n) == {{}, {s \in 1..n : s % 2 = 1}}

\* What the worker returns for service s.
PoolResult(s) ==
    fetch_service_data(s, IF s \in pool_raising THEN "fetch_error" ELSE "ok")

PoolInit ==
    /\ pool_services \in PoolSizes
    /\ pool_raising \in Raising(pool_services)
    /\ pool_pc = IF pool_services = 0 THEN "done" ELSE "submit"
    /\ pool_i = 0
    /\ pool_futures = [s \in PoolIds |-> "unsubmitted"]
    /\ pool_results = [s \in PoolIds |-> None]
    /\ pool_all_data = EmptyBag
    /\ pool_failed = EmptyBag
    /\ pool_submits = [s \in PoolIds |-> 0]
    /\ MainIdle
    /\ ParseIdle
    /\ DepIdle
    /\ ResolveIdle
    /\ AccessIdle

\* executor.submit(fetch_service_data, service) for the next service; after
\* the last one main enters as_completed().
PoolSubmit ==
    /\ pool_pc = "submit"
    /\ pool_i < pool_services
    /\ pool_futures' = [pool_futures EXCEPT ![pool_i + 1] = "queued"]
    /\ pool_submits' = [pool_submits EXCEPT ![pool_i + 1] = @ + 1]
    /\ IF pool_i + 1 = pool_services
       THEN pool_pc' = "collect" /\ pool_i' = 0
       ELSE pool_pc' = pool_pc /\ pool_i' = pool_i + 1
    /\ UNCHANGED <<notPool, pool_services, pool_raising, pool_results,
                   pool_all_data, pool_failed>>

\* The services whose fetch a pool thread is executing.
PoolRunning == {s \in PoolIds : pool_futures[s] = "running"}

\* Mutant: the pool starts a thread for every work item.
PoolWorkerStart_unbounded ==
    /\ \E s \in PoolIds :
         /\ pool_futures[s] = "queued"
         /\ \A u \in 1..(s - 1) : pool_futures[u] # "queued"
         /\ pool_futures' = [pool_futures EXCEPT ![s] = "running"]
    /\ UNCHANGED <<notPool, pool_services, pool_raising, pool_pc, pool_i,
                   pool_results, pool_all_data, pool_failed, pool_submits>>

\* One of the at most max_workers pool threads is free and takes the first
\* work item of the queue.
PoolWorkerStart ==
    /\ Cardinality(PoolRunning) < max_workers
    /\ \E s \in PoolIds :
         /\ pool_futures[s] = "queued"
         /\ \A u \in 1..(s - 1) : pool_futures[u] # "queued"
         /\ pool_futures' = [pool_futures EXCEPT ![s] = "running"]
    /\ UNCHANGED <<notPool, pool_services, pool_raising, pool_pc, pool_i,
                   pool_results, pool_all_data, pool_failed, pool_submits>>

\* fetch_service_data returns in a pool thread: the result is stored in
\* the future.
PoolWorkerFinish ==
    /\ \E s \in PoolRunning :
         /\ pool_futures' = [pool_futures EXCEPT ![s] = "finished"]
         /\ pool_results' = [pool_results EXCEPT ![s] = PoolResult(s)]
    /\ UNCHANGED <<notPool, pool_services, pool_raising, pool_pc, pool_i,
                   pool_all_data, pool_failed, pool_submits>>

\* One iteration of "for i, future in enumerate(as_completed(futures))" in
\* the main thread.
PoolCollect ==
    /\ pool_pc = "collect"
    /\ \E s \in PoolIds :
         /\ pool_futures[s] = "finished"
         /\ pool_futures' = [pool_futures EXCEPT ![s] = "collected"]
         /\ IF Truthy(pool_results[s])
            THEN /\ pool_all_data' =
                      pool_all_data (+) SetToBag({pool_results[s]})
                 /\ UNCHANGED pool_failed
            ELSE /\ pool_failed' = pool_failed (+) SetToBag({s})
                 /\ UNCHANGED pool_all_data
    /\ IF pool_i + 1 = pool_services
       THEN pool_pc' = "done" /\ pool_i' = 0
       ELSE pool_pc' = pool_pc /\ pool_i' = pool_i + 1
    /\ UNCHANGED <<notPool, pool_services, pool_raising, pool_results,
                   pool_submits>>

PoolNext ==
    \/ PoolSubmit
    \/ PoolWorkerStart
    \/ PoolWorkerFinish
    \/ PoolCollect

PoolSpec == PoolInit /\ [][PoolNext]_vars

\* ------------------------------------------------------- pool properties
\* The services whose future the collecting loop of the main thread has
\* taken from as_completed().
Collected == {s \in PoolIds : pool_futures[s] = "collected"}

\* C15: at every point of a run at most 10 fetches are in progress; no
\* service has been submitted twice and, once main waits for completions,
\* every service has been submitted exactly once; all_data and failed hold
\* one element for each future the collecting loop has taken and nothing
\* else, so that no fetch that is queued, in progress or returned has
\* written to either list.
C15_BoundedPool ==
    /\ Cardinality(PoolRunning) <= 10
    /\ \A s \in PoolIds : pool_submits[s] <= 1
    /\ pool_pc \in {"collect", "done"} =>
          \A s \in PoolIds : pool_submits[s] = 1
    /\ BagCardinality(pool_all_data) + BagCardinality(pool_failed) =
          Cardinality(Collected)
    /\ {r.service : r \in BagToSet(pool_all_data)} = Collected \ pool_raising
    /\ BagToSet(pool_failed) = Collected \cap pool_raising

\* More services than pool threads: the main thread has appended the
\* first result to a list while ten fetches are in progress.
C15_Witness ==
    /\ pool_services > 10
    /\ Cardinality(PoolRunning) = 10
    /\ Cardinality(Collected) = 1
    /\ BagCardinality(pool_all_data) + BagCardinality(pool_failed) = 1

====
